---- MODULE Spec2Model ----
(***************************************************************************)
(* QRCLib: the finite-field polynomial arithmetic of src/src/utils.py      *)
(* (primitive roots, modular inverse, NTT, polynomial multiplication).     *)
(* Every function is an operator computed the way the Python code computes *)
(* it; a call is one action that records the arguments and the outcome.    *)
(* A Python function's outcome is a record [raised, value]: raised is the  *)
(* name of the exception that left the function, or "none".                *)
(* On top of it: key generation of src/src/kyber.py and                    *)
(* src/src/dilithium.py, encapsulation, signatures, and the wallet of      *)
(* src/src/bitcoin_protection.py; the cell-by-cell accumulation of the     *)
(* public vector t in any order; and the entry points of the example       *)
(* applications: the constructor of src/examples/secure_messaging.py and   *)
(* the user registration and the authentication decorator of               *)
(* src/examples/web_api_example.py.                                        *)
(***************************************************************************)
EXTENDS Integers, Sequences, FiniteSets, TLC

VARIABLES pc,       \* "call": the call is pending; "done": it has ended
          op,       \* the function called
          modulus,  \* its modulus argument
          pa,       \* its first array argument (0-based in Python, 1-based here)
          pb,       \* its second array argument
          ia,       \* its integer argument
          orig,     \* the array whose ntt_transform is pa, when chained
          chained,  \* TRUE when pa is the value ntt_transform returned for orig
          raised,   \* the exception the call raised, "none" if it returned
          result,   \* the array it returned
          ret,      \* the integer it returned
          step,     \* position of a key-generation or signature scenario
          arg,      \* the scenario's arguments and the random values drawn
          out       \* what the scenario's calls returned or raised

arithvars == <<pc, op, modulus, pa, pb, ia, orig, chained, raised, result, ret>>
vars == <<pc, op, modulus, pa, pb, ia, orig, chained, raised, result, ret,
          step, arg, out>>

(***************************************************************************)
(* Bounds of the model.                                                    *)
(***************************************************************************)
MaxModulus == 72    \* find_primitive_root is called with 1..MaxModulus
MaxInvArg == 24     \* mod_inverse is called with a in 0..MaxInvArg, m in 1..MaxInvArg
MaxLen == 8         \* ntt_transform / intt_transform inputs have 0..MaxLen entries
MaxMulLen == 6      \* polynomial_multiply operands have 0..MaxMulLen entries

CoeffVals == {1, 2, 3, 4}      \* non-zero coefficient values of the inputs
TermCounts == {0, 1, 2}        \* number of non-zero coefficients of an input
MulTermCounts == {0, 1}        \* the same for the second operand of a product
NttModuli == {2, 4, 5, 7, 17}  \* moduli the transforms are called with

(***************************************************************************)
(* Program constants.                                                      *)
(***************************************************************************)
KyberPrime == 3329
KyberRoot == 17
DilithiumPrime == 8380417
DilithiumRoot == 1753
TestPrime == 17
TestRoot == 3

HardcodedPrimes == {KyberPrime, DilithiumPrime, TestPrime}

(***************************************************************************)
(* Python integer arithmetic.  Python integers are unbounded; products of  *)
(* residues of the Dilithium prime are formed by doubling so that no       *)
(* intermediate value leaves the checker's integer range.                  *)
(***************************************************************************)
RECURSIVE MulMod(_, _, _)
MulMod(x, y, m) ==
    IF m < 46341 THEN ((x % m) * (y % m)) % m
    ELSE IF y = 0 THEN 0
    ELSE LET h == MulMod(x, y \div 2, m)
             d == (h + h) % m
         IN  IF y % 2 = 1 THEN (d + (x % m)) % m ELSE d

\* pow(base, e, m) for e >= 0
RECURSIVE PowMod(_, _, _)
PowMod(base, e, m) ==
    IF e = 0 THEN 1 % m
    ELSE LET h == PowMod(base, e \div 2, m)
             s == MulMod(h, h, m)
         IN  IF e % 2 = 1 THEN MulMod(s, base, m) ELSE s

\* pow(base, -1, m): the inverse, or ValueError when base is not invertible
PowInv(base, m) ==
    LET inv == {y \in 0..(m - 1) : (base * y) % m = 1 % m}
    IN  IF inv = {} THEN [raised |-> "ValueError", value |-> 0]
        ELSE [raised |-> "none", value |-> CHOOSE y \in inv : TRUE]

\* int(n ** 0.5)
Isqrt(n) == CHOOSE r \in 0..n : r * r <= n /\ (r + 1) * (r + 1) > n

(***************************************************************************)
(* find_primitive_root                                                     *)
(***************************************************************************)
\* a faulty variant: a candidate passes when its powers are 1
RECURSIVE is_primitive_root_inverted(_, _, _)
is_primitive_root_inverted(a, m, factors) ==
    IF factors = <<>> THEN TRUE
    ELSE IF PowMod(a, (m - 1) \div Head(factors), m) # 1 THEN FALSE
    ELSE is_primitive_root_inverted(a, m, Tail(factors))

RECURSIVE is_primitive_root(_, _, _)
is_primitive_root(a, m, factors) ==
    IF factors = <<>> THEN TRUE
    ELSE IF PowMod(a, (m - 1) \div Head(factors), m) = 1 THEN FALSE
    ELSE is_primitive_root(a, m, Tail(factors))

\* while n % i == 0: n //= i
RECURSIVE StripFactor(_, _)
StripFactor(n, i) == IF n % i = 0 THEN StripFactor(n \div i, i) ELSE n

\* for i in range(i, hi + 1): ...   returns <<n, factors>>
RECURSIVE FactorLoop(_, _, _, _)
FactorLoop(i, hi, n, factors) ==
    IF i > hi THEN <<n, factors>>
    ELSE IF n % i = 0
         THEN FactorLoop(i + 1, hi, StripFactor(n, i), Append(factors, i))
         ELSE FactorLoop(i + 1, hi, n, factors)

\* a faulty variant: the cofactor left after trial division is not collected
prime_factors_no_tail(m) ==
    FactorLoop(2, Isqrt(m - 1), m - 1, <<>>)[2]

\* the list `factors` built for modulus m
prime_factors(m) ==
    LET r == FactorLoop(2, Isqrt(m - 1), m - 1, <<>>)
    IN  IF r[1] > 1 THEN Append(r[2], r[1]) ELSE r[2]

\* a = 2; while not is_primitive_root(a, ...): a += 1
RECURSIVE RootSearch(_, _, _)
RootSearch(a, m, factors) ==
    IF is_primitive_root(a, m, factors) THEN a
    ELSE RootSearch(a + 1, m, factors)

find_primitive_root(m) ==
    IF m = KyberPrime THEN KyberRoot
    ELSE IF m = DilithiumPrime THEN DilithiumRoot
    ELSE IF m = TestPrime THEN TestRoot
    ELSE RootSearch(2, m, prime_factors(m))

(***************************************************************************)
(* mod_inverse                                                             *)
(***************************************************************************)
\* a faulty variant: the sign of the quotient term is flipped
RECURSIVE extended_gcd_plus(_, _)
extended_gcd_plus(a, b) ==
    IF a = 0 THEN <<b, 0, 1>>
    ELSE LET r == extended_gcd_plus(b % a, a)
         IN  <<r[1], r[3] + (b \div a) * r[2], r[2]>>

\* returns <<gcd, x, y>>
RECURSIVE extended_gcd(_, _)
extended_gcd(a, b) ==
    IF a = 0 THEN <<b, 0, 1>>
    ELSE LET r == extended_gcd(b % a, a)
         IN  <<r[1], r[3] - (b \div a) * r[2], r[2]>>

mod_inverse(a, m) ==
    LET x == extended_gcd(a, m)[2]
    IN  ((x % m) + m) % m

(***************************************************************************)
(* ntt_transform / intt_transform                                          *)
(***************************************************************************)
RECURSIVE BitAnd(_, _)
BitAnd(x, y) ==
    IF x = 0 \/ y = 0 THEN 0
    ELSE 2 * BitAnd(x \div 2, y \div 2) + (IF x % 2 = 1 /\ y % 2 = 1 THEN 1 ELSE 0)

\* n & (n - 1); for n = 0 the second operand is -1 (all bits set)
LengthCheck(n) == IF n = 0 THEN 0 ELSE BitAnd(n, n - 1)

\* int(np.log2(n)) for n >= 1
RECURSIVE Log2(_)
Log2(n) == IF n <= 1 THEN 0 ELSE 1 + Log2(n \div 2)

\* 1 << s
RECURSIVE Shl1(_)
Shl1(s) == IF s = 0 THEN 1 ELSE 2 * Shl1(s - 1)

\* [pow(w, i, q) for i in range(n)]
PowerTable(w, n, q) == [i \in 1..n |-> PowMod(w, i - 1, q)]

\* The Cooley-Tukey loop nest from stage s, butterfly number t of the stage
\* (t counts the (k, j) pairs in the order the code visits them).
RECURSIVE NttLoop(_, _, _, _, _)
NttLoop(res, s, t, omegas, q) ==
    LET n == Len(res) IN
    IF s >= Log2(n) THEN res
    ELSE IF t >= n \div 2 THEN NttLoop(res, s + 1, 0, omegas, q)
    ELSE LET m == Shl1(s)
             k == (t \div m) * (2 * m)
             j == t % m
             idx1 == k + j
             idx2 == k + j + m
             u == res[idx1 + 1]
             v == (res[idx2 + 1] * omegas[j * (n \div (2 * m)) + 1]) % q
         IN  NttLoop([res EXCEPT ![idx1 + 1] = (u + v) % q,
                                 ![idx2 + 1] = (u - v) % q],
                     s, t + 1, omegas, q)

ntt_transform(poly, q) ==
    LET n == Len(poly) IN
    IF LengthCheck(n) # 0 THEN [raised |-> "ValueError", value |-> <<>>]
    ELSE IF n = 0 THEN [raised |-> "ZeroDivisionError", value |-> <<>>]
    ELSE LET g == find_primitive_root(q)
             omega == PowMod(g, (q - 1) \div n, q)
             omegas == PowerTable(omega, n, q)
         IN  [raised |-> "none", value |-> NttLoop(poly, 0, 0, omegas, q)]

\* The Gentleman-Sande loop nest from stage s (counting down), butterfly t.
RECURSIVE InttLoop(_, _, _, _, _)
InttLoop(res, s, t, omegas_inv, q) ==
    LET n == Len(res) IN
    IF s < 0 THEN res
    ELSE IF t >= n \div 2 THEN InttLoop(res, s - 1, 0, omegas_inv, q)
    ELSE LET m == Shl1(s)
             k == (t \div m) * (2 * m)
             j == t % m
             idx1 == k + j
             idx2 == k + j + m
             u == res[idx1 + 1]
             v == res[idx2 + 1]
         IN  InttLoop([res EXCEPT ![idx1 + 1] = (u + v) % q,
                                  ![idx2 + 1] =
                                      ((u - v) * omegas_inv[j * (n \div (2 * m)) + 1]) % q],
                      s, t + 1, omegas_inv, q)

\* result = (result * n_inv) % modulus
Scale(res, c, q) == [i \in 1..Len(res) |-> (res[i] * c) % q]

\* a faulty variant: the final scaling by n^(-1) is missing
intt_transform_unscaled(poly, q) ==
    LET n == Len(poly) IN
    IF LengthCheck(n) # 0 THEN [raised |-> "ValueError", value |-> <<>>]
    ELSE IF n = 0 THEN [raised |-> "ZeroDivisionError", value |-> <<>>]
    ELSE LET g == find_primitive_root(q)
             omega == PowMod(g, (q - 1) \div n, q)
             omega_inv == PowInv(omega, q)
             n_inv == PowInv(n, q)
         IN  IF omega_inv.raised # "none" \/ n_inv.raised # "none"
             THEN [raised |-> "ValueError", value |-> <<>>]
             ELSE [raised |-> "none",
                   value |-> InttLoop(poly, Log2(n) - 1, 0,
                                      PowerTable(omega_inv.value, n, q), q)]

intt_transform(poly, q) ==
    LET n == Len(poly) IN
    IF LengthCheck(n) # 0 THEN [raised |-> "ValueError", value |-> <<>>]
    ELSE IF n = 0 THEN [raised |-> "ZeroDivisionError", value |-> <<>>]
    ELSE LET g == find_primitive_root(q)
             omega == PowMod(g, (q - 1) \div n, q)
             omega_inv == PowInv(omega, q)
             n_inv == PowInv(n, q)
         IN  IF omega_inv.raised # "none" \/ n_inv.raised # "none"
             THEN [raised |-> "ValueError", value |-> <<>>]
             ELSE [raised |-> "none",
                   value |-> Scale(InttLoop(poly, Log2(n) - 1, 0,
                                            PowerTable(omega_inv.value, n, q), q),
                                   n_inv.value, q)]

(***************************************************************************)
(* polynomial_multiply                                                     *)
(***************************************************************************)
\* n_padded = 1; while n_padded < n: n_padded *= 2
RECURSIVE NextPow2(_, _)
NextPow2(n_padded, n) == IF n_padded < n THEN NextPow2(2 * n_padded, n) ELSE n_padded

\* a faulty variant: the operand is handed on without padding
PadNothing(a, extra) == a

\* np.pad(a, (0, extra))
Pad(a, extra) == a \o [i \in 1..extra |-> 0]

\* a faulty variant: the transforms are added instead of multiplied
PointwiseAdd(x, y, q) == [i \in 1..Len(x) |-> (x[i] + y[i]) % q]

\* (x * y) % modulus, element by element
PointwiseMul(x, y, q) == [i \in 1..Len(x) |-> (x[i] * y[i]) % q]

\* the body of polynomial_multiply after the length check
MultiplyPadded(a, b, q) ==
    LET n == Len(a)
        n_padded == NextPow2(1, n)
        a_ntt == ntt_transform(Pad(a, n_padded - n), q)
        b_ntt == ntt_transform(Pad(b, n_padded - n), q)
    IN  IF a_ntt.raised # "none" THEN a_ntt
        ELSE IF b_ntt.raised # "none" THEN b_ntt
        ELSE LET r == intt_transform(PointwiseMul(a_ntt.value, b_ntt.value, q), q)
             IN  IF r.raised # "none" THEN r
                 ELSE [raised |-> "none", value |-> SubSeq(r.value, 1, n)]

\* a faulty variant: no length check; b is cut or zero-filled to len(a)
polynomial_multiply_unchecked(a, b, q) ==
    MultiplyPadded(a, [i \in 1..Len(a) |-> IF i <= Len(b) THEN b[i] ELSE 0], q)

polynomial_multiply(a, b, q) ==
    IF Len(a) # Len(b) THEN [raised |-> "ValueError", value |-> <<>>]
    ELSE MultiplyPadded(a, b, q)

(***************************************************************************)
(* The inputs of the calls.                                                *)
(***************************************************************************)
Vals(q) == {v \in CoeffVals : v < q}

\* arrays of n coefficients in [0, q) whose number of non-zero entries is in counts
Polys(n, q, counts) ==
    UNION { { [i \in 1..n |-> IF i \in S THEN f[i] ELSE 0] : f \in [S -> Vals(q)] } :
            S \in {T \in SUBSET (1..n) : Cardinality(T) \in counts} }

\* the arrays of tests/test_utils.py, all with modulus TestPrime
TestPoly1 == <<1, 2, 3, 4, 0, 0, 0, 0>>
TestPoly2 == <<5, 6, 7, 8, 1, 2, 3, 4>>
TestMulA == <<1, 2, 3, 4, 0, 0, 0, 0>>
TestMulB == <<2, 1, 0, 3, 0, 0, 0, 0>>

(***************************************************************************)
(* The state machine.  A behaviour is one call: Init draws the function    *)
(* and its arguments (pc = "call"), the function's action computes the     *)
(* outcome (pc = "done").  After an ntt_transform that returned, the test  *)
(* suite's round trip feeds the returned array to intt_transform.          *)
(***************************************************************************)
Pending(f, q, a, b, i) ==
    /\ pc = "call"
    /\ op = f
    /\ modulus = q
    /\ pa = a
    /\ pb = b
    /\ ia = i
    /\ orig = <<>>
    /\ chained = FALSE
    /\ raised = "none"
    /\ result = <<>>
    /\ ret = 0
    /\ step = "idle"
    /\ arg = <<>>
    /\ out = <<>>

Init ==
    \/ \E m \in (1..MaxModulus) \cup HardcodedPrimes :
          Pending("find_primitive_root", m, <<>>, <<>>, 0)
    \/ \E a \in 0..MaxInvArg, m \in 1..MaxInvArg :
          Pending("mod_inverse", m, <<>>, <<>>, a)
    \/ \E f \in {"ntt_transform", "intt_transform"} :
          \/ \E q \in NttModuli, n \in 0..MaxLen : \E p \in Polys(n, q, TermCounts) :
                Pending(f, q, p, <<>>, 0)
          \/ \E p \in {TestPoly1, TestPoly2} : Pending(f, TestPrime, p, <<>>, 0)
    \/ \E q \in NttModuli, n \in 0..MaxMulLen, k \in 0..MaxMulLen :
          \E a \in Polys(n, q, TermCounts), b \in Polys(k, q, MulTermCounts) :
             Pending("polynomial_multiply", q, a, b, 0)
    \/ Pending("polynomial_multiply", TestPrime, TestMulA, TestMulB, 0)

CallFindPrimitiveRoot ==
    /\ pc = "call"
    /\ op = "find_primitive_root"
    /\ ret' = find_primitive_root(modulus)
    /\ pc' = "done"
    /\ UNCHANGED <<step, arg, out, op, modulus, pa, pb, ia, orig, chained, raised, result>>

CallModInverse ==
    /\ pc = "call"
    /\ op = "mod_inverse"
    /\ ret' = mod_inverse(ia, modulus)
    /\ pc' = "done"
    /\ UNCHANGED <<step, arg, out, op, modulus, pa, pb, ia, orig, chained, raised, result>>

CallNtt ==
    /\ pc = "call"
    /\ op = "ntt_transform"
    /\ LET r == ntt_transform(pa, modulus) IN
          /\ raised' = r.raised
          /\ result' = r.value
    /\ pc' = "done"
    /\ UNCHANGED <<step, arg, out, op, modulus, pa, pb, ia, orig, chained, ret>>

\* intt_transform called on an arbitrary array
CallIntt ==
    /\ pc = "call"
    /\ op = "intt_transform"
    /\ LET r == intt_transform(pa, modulus) IN
          /\ raised' = r.raised
          /\ result' = r.value
    /\ pc' = "done"
    /\ UNCHANGED <<step, arg, out, op, modulus, pa, pb, ia, orig, chained, ret>>

\* intt_transform called on what the preceding ntt_transform returned, with
\* the same modulus (tests/test_utils.py: recovered = intt(ntt(poly)))
CallInttOfNtt ==
    /\ pc = "done"
    /\ op = "ntt_transform"
    /\ raised = "none"
    /\ LET r == intt_transform(result, modulus) IN
          /\ raised' = r.raised
          /\ result' = r.value
    /\ op' = "intt_transform"
    /\ pa' = result
    /\ orig' = pa
    /\ chained' = TRUE
    /\ UNCHANGED <<step, arg, out, pc, modulus, pb, ia, ret>>

CallPolynomialMultiply ==
    /\ pc = "call"
    /\ op = "polynomial_multiply"
    /\ LET r == polynomial_multiply(pa, pb, modulus) IN
          /\ raised' = r.raised
          /\ result' = r.value
    /\ pc' = "done"
    /\ UNCHANGED <<step, arg, out, op, modulus, pa, pb, ia, orig, chained, ret>>

Next ==
    \/ CallFindPrimitiveRoot
    \/ CallModInverse
    \/ CallNtt
    \/ CallIntt
    \/ CallInttOfNtt
    \/ CallPolynomialMultiply

Spec == Init /\ [][Next]_vars

(***************************************************************************)
(* Number theory and ring arithmetic the properties are stated with,       *)
(* defined from the mathematics and not from the code.                     *)
(***************************************************************************)
IsPrime(n) == n >= 2 /\ \A d \in 2..(n - 1) : n % d # 0

IsOddPrime(n) == n >= 3 /\ IsPrime(n)

IsPowerOfTwo(n) == \E e \in 0..n : 2 ^ e = n

Divides(d, n) == n % d = 0

\* the distinct prime factors of n >= 2, through the divisors of n
DistinctPrimeFactors(n) ==
    LET low == {d \in 2..Isqrt(n) : Divides(d, n)}
        divisors == low \cup {n \div d : d \in low} \cup {n}
    IN  {p \in divisors : \A d \in divisors : d < p => ~Divides(d, p)}

\* g generates the multiplicative group mod q
IsGenerator(g, q) ==
    \A p \in DistinctPrimeFactors(q - 1) : PowMod(g, (q - 1) \div p, q) # 1

\* the powers g^1 .. g^(q-1) mod q are all of 1 .. q-1
PowersCoverGroup(g, q) == {PowMod(g, e, q) : e \in 1..(q - 1)} = 1..(q - 1)

Gcd(x, y) ==
    IF x = 0 THEN y
    ELSE IF y = 0 THEN x
    ELSE CHOOSE d \in 1..x :
            /\ Divides(d, x) /\ Divides(d, y)
            /\ \A c \in (d + 1)..x : ~(Divides(c, x) /\ Divides(c, y))

SeqToSet(f) == {f[i] : i \in 1..Len(f)}

ZeroPoly(n) == [i \in 1..n |-> 0]

InRange(f, q) == \A i \in 1..Len(f) : f[i] \in 0..(q - 1)

\* sum over i = 0 .. n-1 of the contribution of a_i to coefficient k of
\* a * b with x^n = -1
RECURSIVE NegacyclicSum(_, _, _, _)
NegacyclicSum(a, b, k, i) ==
    IF i >= Len(a) THEN 0
    ELSE LET j == k - i
             term == IF j >= 0 THEN a[i + 1] * b[j + 1]
                     ELSE 0 - a[i + 1] * b[j + Len(a) + 1]
         IN  term + NegacyclicSum(a, b, k, i + 1)

\* the schoolbook product in Z_q[x] / (x^n + 1)
Negacyclic(a, b, q) == [k \in 1..Len(a) |-> NegacyclicSum(a, b, k - 1, 0) % q]

Done(f) == pc = "done" /\ op = f

(***************************************************************************)
(* C1: for a power-of-two length n and an odd prime q, and every array p   *)
(* of n coefficients in [0, q), intt_transform(ntt_transform(p, q), q)     *)
(* returns p, coefficient for coefficient.                                 *)
(***************************************************************************)
C1_RoundTrip ==
    (Done("intt_transform") /\ chained /\ IsOddPrime(modulus)
        /\ IsPowerOfTwo(Len(orig)) /\ InRange(orig, modulus))
    => (raised = "none" /\ result = orig)

C1_Witness ==
    /\ Done("intt_transform") /\ chained
    /\ modulus = TestPrime /\ orig = TestPoly1
    /\ pa # orig /\ result = orig

(***************************************************************************)
(* C2: for equal-length power-of-two arrays a and b with coefficients in   *)
(* [0, q), polynomial_multiply(a, b, q) is the schoolbook negacyclic       *)
(* product of a and b (x^n = -1), reduced mod q.                           *)
(***************************************************************************)
C2_NegacyclicProduct ==
    (Done("polynomial_multiply") /\ IsOddPrime(modulus)
        /\ Len(pa) = Len(pb) /\ IsPowerOfTwo(Len(pa)))
    => (raised = "none" /\ result = Negacyclic(pa, pb, modulus))

(***************************************************************************)
(* C3: for every array a of power-of-two length n with coefficients in     *)
(* [0, q), q an odd prime, polynomial_multiply(a, zero, q) is the all-zero *)
(* array of length n.                                                      *)
(***************************************************************************)
C3_MultiplyByZero ==
    (Done("polynomial_multiply") /\ IsOddPrime(modulus)
        /\ IsPowerOfTwo(Len(pa)) /\ pb = ZeroPoly(Len(pa)))
    => (raised = "none" /\ result = ZeroPoly(Len(pa)))

C3_Witness ==
    /\ Done("polynomial_multiply") /\ modulus = TestPrime
    /\ Len(pa) = 4 /\ pa # ZeroPoly(4) /\ pb = ZeroPoly(4)
    /\ raised = "none" /\ result = ZeroPoly(4)

(***************************************************************************)
(* C4: polynomial_multiply(a, b, q) with len(a) # len(b) raises an error   *)
(* (ValueError) and returns no product, whatever the two lengths are.      *)
(***************************************************************************)
C4_LengthMismatchRaises ==
    (Done("polynomial_multiply") /\ Len(pa) # Len(pb))
    => (raised = "ValueError" /\ result = <<>>)

C4_Witness ==
    /\ Done("polynomial_multiply") /\ IsOddPrime(modulus)
    /\ Len(pa) = 2 /\ Len(pb) = 4
    /\ raised = "ValueError"

C6_HardcodedRootsGenerate ==
    (Done("find_primitive_root") /\ modulus \in HardcodedPrimes)
    => IsGenerator(ret, modulus)

(***************************************************************************)
(* C7: for an odd prime q outside the hardcoded set, the factor list that  *)
(* find_primitive_root collects is exactly the set of distinct prime       *)
(* factors of q - 1, and the value returned is the smallest g >= 2 with    *)
(* g^((q-1)/p) mod q # 1 for every such p: the least primitive root of q.  *)
(***************************************************************************)
C7_LeastPrimitiveRoot ==
    (Done("find_primitive_root") /\ IsOddPrime(modulus)
        /\ modulus \notin HardcodedPrimes)
    => /\ SeqToSet(prime_factors(modulus))
             = {p \in 2..(modulus - 1) : IsPrime(p) /\ Divides(p, modulus - 1)}
       /\ Len(prime_factors(modulus)) = Cardinality(SeqToSet(prime_factors(modulus)))
       /\ ret >= 2
       /\ IsGenerator(ret, modulus)
       /\ PowersCoverGroup(ret, modulus)
       /\ \A h \in 2..(ret - 1) :
             ~IsGenerator(h, modulus) /\ ~PowersCoverGroup(h, modulus)

C7_Witness ==
    /\ Done("find_primitive_root")
    /\ modulus = 71 /\ ret = 7

(***************************************************************************)
(* C8: find_primitive_root called with a modulus that is not prime (8, 15) *)
(* ends by reporting an error; it does not return a value as if it were a  *)
(* primitive root.                                                         *)
(***************************************************************************)
C8_CompositeModulusRaises ==
    (Done("find_primitive_root") /\ modulus >= 2 /\ ~IsPrime(modulus))
    => raised # "none"

(***************************************************************************)
(* C9: for m >= 2 and a >= 1 with gcd(a, m) = 1, mod_inverse(a, m) returns *)
(* the unique x with 0 <= x < m and (a * x) mod m = 1.                     *)
(***************************************************************************)
C9_ModInverse ==
    (Done("mod_inverse") /\ modulus >= 2 /\ ia >= 1 /\ Gcd(ia, modulus) = 1)
    => /\ raised = "none"
       /\ ret \in 0..(modulus - 1)
       /\ (ia * ret) % modulus = 1
       /\ \A y \in 0..(modulus - 1) : (ia * y) % modulus = 1 => y = ret

C9_Witness ==
    /\ Done("mod_inverse")
    /\ ia = 17 /\ modulus = 24 /\ ret = 17

(***************************************************************************)
(* C10: for m >= 2 and a >= 0 with gcd(a, m) # 1, mod_inverse(a, m) raises *)
(* an error instead of returning a residue.                                *)
(***************************************************************************)
C10_NotInvertibleRaises ==
    (Done("mod_inverse") /\ modulus >= 2 /\ Gcd(ia, modulus) # 1)
    => raised # "none"

(***************************************************************************)
(* Key generation (src/src/kyber.py, src/src/dilithium.py).                *)
(*                                                                         *)
(* Python values carry their type: [type, val].  A byte is a record        *)
(* [h, i, x]: a byte with a known value x has h = <<>> and i = 0; byte i   *)
(* of the SHA-256 digest of the byte string h is [h, i, 0], and x is what  *)
(* has been xor-ed into it since.  Digests of different inputs differ in   *)
(* every byte and no digest byte equals a byte with a known value: the     *)
(* hash is treated as collision-free.                                      *)
(***************************************************************************)
KYBER_K == 3
KYBER_N == 256
KYBER_Q == 3329
KYBER_ETA == 2
DILITHIUM_N == 256
DILITHIUM_Q == 8380417
DILITHIUM_K == 4
DILITHIUM_L == 4
DILITHIUM_ETA == 2
SeedLen == 32       \* secure_random_bytes(32): seeds, nonces, messages

\* Bounds: the parameter objects key generation is called with keep their
\* eta, and take their shape and modulus from these sets
KyberShapes == {<<0, 2>>, <<1, 2>>, <<2, 1>>, <<3, 1>>}     \* <<k, n>>
DilithiumShapes == {<<1, 1, 2>>, <<1, 2, 2>>, <<2, 1, 2>>,
                    <<2, 2, 1>>, <<1, 1, 4>>}                \* <<k, l, n>>
KeyModuli == {5, 17}           \* q of the Dilithium parameter objects
MatrixVals(q) == {1, q - 1}    \* the draws of A's coefficients that are explored
DrawPositions(len) == {1, len} \* a drawn byte string is zero except at one
DrawValues == {0, 255}         \* of these positions, where it has one of these values

PyNone == [type |-> "NoneType", val |-> <<>>]
PyBytes(b) == [type |-> "bytes", val |-> b]
PyStr(c) == [type |-> "str", val |-> c]
PyDict(d) == [type |-> "dict", val |-> d]
RawByte(x) == [h |-> <<>>, i |-> 0, x |-> x]

\* the values secrets.randbelow(max_val - min_val + 1) + min_val can take
secure_random_int(min_val, max_val) == {r + min_val : r \in 0..(max_val - min_val)}

\* the values of secure_random_bytes(length) that are explored
secure_random_bytes(length) ==
    {PyBytes([p \in 1..length |-> RawByte(IF p = d THEN v ELSE 0)]) :
        d \in DrawPositions(length), v \in DrawValues}

\* the values generate_matrix(1, cols, modulus)[0] can take: cols draws of
\* secure_random_int(0, modulus - 1)
generate_matrix_row(cols, q) == [1..cols -> secure_random_int(0, q - 1)]

\* KyberParams(k), DilithiumParams()
KyberParams(k) == [k |-> k, n |-> KYBER_N, q |-> KYBER_Q, eta |-> KYBER_ETA]
DilithiumParams ==
    [n |-> DILITHIUM_N, q |-> DILITHIUM_Q, k |-> DILITHIUM_K, l |-> DILITHIUM_L,
     eta |-> DILITHIUM_ETA]

\* utils.polynomial_multiply(*args): Python binds the positional arguments
\* to the three parameters (a, b, modulus) before the body runs
polynomial_multiply_call(args) ==
    IF Len(args) # 3 THEN [raised |-> "TypeError", value |-> <<>>]
    ELSE polynomial_multiply(args[1], args[2], args[3])

\* (x + y) % q on arrays
AddMod(x, y, q) == [c \in 1..Len(x) |-> (x[c] + y[c]) % q]

\* np.zeros((k, n))
Zeros(k, n) == [i \in 1..k |-> [c \in 1..n |-> 0]]

\* kyber.generate_keys, the loops that compute t.  KyberRow is the loop
\* over j for row i (t_i is t[i] so far) and KyberRowNext what follows the
\* call of polynomial_multiply in its body; KyberRows is the loop over i and
\* KyberRowsNext what follows the loop over j in its body.
RECURSIVE KyberRow(_, _, _, _, _), KyberRowNext(_, _, _, _, _, _)
KyberRowNext(product, j, t_i, A_i, s, params) ==
    IF product.raised # "none" THEN product
    ELSE KyberRow(j + 1, AddMod(t_i, product.value, params.q), A_i, s, params)

KyberRow(j, t_i, A_i, s, params) ==
    IF j > params.k THEN [raised |-> "none", value |-> t_i]
    ELSE KyberRowNext(polynomial_multiply_call(<<A_i[j], s[j], params.q, params.n>>),
                      j, t_i, A_i, s, params)

RECURSIVE KyberRows(_, _, _, _, _, _), KyberRowsNext(_, _, _, _, _, _, _)
KyberRowsNext(row, i, t, A, s, e, params) ==
    IF row.raised # "none" THEN row
    ELSE KyberRows(i + 1, [t EXCEPT ![i] = AddMod(row.value, e[i], params.q)],
                   A, s, e, params)

KyberRows(i, t, A, s, e, params) ==
    IF i > params.k THEN [raised |-> "none", value |-> t]
    ELSE KyberRowsNext(KyberRow(1, t[i], A[i], s, params), i, t, A, s, e, params)

\* kyber.generate_keys from line 50 on: t is the outcome of the loops
KyberKeyPair(t, A, s, key_seed) ==
    IF t.raised # "none"
    THEN [raised |-> t.raised, public_key |-> PyNone, private_key |-> PyNone]
    ELSE [raised |-> "none",
          public_key |-> PyDict([A |-> A, t |-> t.value, seed |-> key_seed]),
          private_key |-> PyDict([s |-> s, seed |-> key_seed])]

\* kyber.generate_keys(params) with the values it draws; key_seed is drawn
\* after the loops
kyber_generate_keys(params, A, s, e, key_seed) ==
    KyberKeyPair(KyberRows(1, Zeros(params.k, params.n), A, s, e, params),
                 A, s, key_seed)

\* a faulty variant: each product replaces the row instead of being added
DilithiumAccumulateLast(t_i, product, q) == [c \in 1..Len(product) |-> product[c] % q]

\* t[i] = (t[i] + product) % params.q
DilithiumAccumulate(t_i, product, q) == AddMod(t_i, product, q)

\* dilithium.generate_keys, the loops that compute t, in the same four parts
RECURSIVE DilithiumRow(_, _, _, _, _), DilithiumRowNext(_, _, _, _, _, _)
DilithiumRowNext(product, j, t_i, A_i, s1, params) ==
    IF product.raised # "none" THEN product
    ELSE DilithiumRow(j + 1, DilithiumAccumulate(t_i, product.value, params.q),
                      A_i, s1, params)

DilithiumRow(j, t_i, A_i, s1, params) ==
    IF j > params.l THEN [raised |-> "none", value |-> t_i]
    ELSE DilithiumRowNext(polynomial_multiply_call(<<A_i[j], s1[j], params.q>>),
                          j, t_i, A_i, s1, params)

RECURSIVE DilithiumRows(_, _, _, _, _), DilithiumRowsNext(_, _, _, _, _, _)
DilithiumRowsNext(row, i, t, A, s1, params) ==
    IF row.raised # "none" THEN row
    ELSE DilithiumRows(i + 1, [t EXCEPT ![i] = row.value], A, s1, params)

DilithiumRows(i, t, A, s1, params) ==
    IF i > params.k THEN [raised |-> "none", value |-> t]
    ELSE DilithiumRowsNext(DilithiumRow(1, t[i], A[i], s1, params), i, t, A, s1, params)

\* a faulty variant: the verification key is the signing key
VerificationKeyWithSecrets(rho, key_seed, A, s1, s2, t) ==
    PyDict([rho |-> rho, key_seed |-> key_seed, A |-> A, s1 |-> s1, s2 |-> s2, t |-> t])

VerificationKey(rho, key_seed, A, s1, s2, t) ==
    PyDict([rho |-> rho, key_seed |-> key_seed, A |-> A, t |-> t])

SigningKey(rho, key_seed, A, s1, s2, t) ==
    PyDict([rho |-> rho, key_seed |-> key_seed, A |-> A, s1 |-> s1, s2 |-> s2, t |-> t])

\* dilithium.generate_keys from line 63 on: t is the outcome of the loops
DilithiumKeyPair(t, rho, key_seed, A, s1, s2) ==
    IF t.raised # "none"
    THEN [raised |-> t.raised, signing_key |-> PyNone, verification_key |-> PyNone]
    ELSE [raised |-> "none",
          signing_key |-> SigningKey(rho, key_seed, A, s1, s2, t.value),
          verification_key |-> VerificationKey(rho, key_seed, A, s1, s2, t.value)]

\* dilithium.generate_keys(params) with the values it draws
dilithium_generate_keys(params, rho, key_seed, A, s1, s2) ==
    DilithiumKeyPair(DilithiumRows(1, Zeros(params.k, params.n), A, s1, params),
                     rho, key_seed, A, s1, s2)

(***************************************************************************)
(* Key generation as a state machine: Init chooses the scheme and the      *)
(* parameter object (step = "keygen"); the call draws its random values,   *)
(* records them in arg.drawn, and ends (step = "generated").               *)
(***************************************************************************)
ArithIdle ==
    /\ pc = "idle"
    /\ op = "none"
    /\ modulus = 0
    /\ pa = <<>>
    /\ pb = <<>>
    /\ ia = 0
    /\ orig = <<>>
    /\ chained = FALSE
    /\ raised = "none"
    /\ result = <<>>
    /\ ret = 0

InitKeys ==
    /\ ArithIdle
    /\ step = "keygen"
    /\ out = <<>>
    /\ \/ \E sh \in KyberShapes :
             arg = [scheme |-> "kyber",
                    params |-> [KyberParams(sh[1]) EXCEPT !.n = sh[2]],
                    drawn |-> <<>>]
       \/ \E sh \in DilithiumShapes, q \in KeyModuli :
             arg = [scheme |-> "dilithium",
                    params |-> [DilithiumParams EXCEPT !.k = sh[1], !.l = sh[2],
                                                       !.n = sh[3], !.q = q],
                    drawn |-> <<>>]

KyberGenerateKeys ==
    /\ step = "keygen"
    /\ arg.scheme = "kyber"
    /\ LET params == arg.params IN
       \E A \in [1..params.k -> [1..params.k -> [1..params.n -> MatrixVals(params.q)]]],
          s \in [1..params.k -> generate_matrix_row(params.n, params.eta)],
          e \in [1..params.k -> generate_matrix_row(params.n, params.eta)],
          key_seed \in secure_random_bytes(SeedLen) :
             /\ out' = kyber_generate_keys(params, A, s, e, key_seed)
             /\ arg' = [arg EXCEPT !.drawn =
                           [A |-> A, s |-> s, e |-> e,
                            key_seed |-> IF out'.raised = "none" THEN key_seed
                                         ELSE PyNone]]
    /\ step' = "generated"
    /\ UNCHANGED arithvars

DilithiumGenerateKeys ==
    /\ step = "keygen"
    /\ arg.scheme = "dilithium"
    /\ LET params == arg.params IN
       \E rho \in secure_random_bytes(SeedLen), key_seed \in secure_random_bytes(SeedLen),
          A \in [1..params.k -> [1..params.l -> [1..params.n -> MatrixVals(params.q)]]],
          s1 \in [1..params.l -> generate_matrix_row(params.n, params.eta)],
          s2 \in [1..params.k -> generate_matrix_row(params.n, params.eta)] :
             /\ out' = dilithium_generate_keys(params, rho, key_seed, A, s1, s2)
             /\ arg' = [arg EXCEPT !.drawn =
                           [rho |-> rho, key_seed |-> key_seed, A |-> A,
                            s1 |-> s1, s2 |-> s2]]
    /\ step' = "generated"
    /\ UNCHANGED arithvars

NextKeys ==
    \/ KyberGenerateKeys
    \/ DilithiumGenerateKeys

SpecKeys == InitKeys /\ [][NextKeys]_vars

Generated(scheme) == step = "generated" /\ arg.scheme = scheme

\* every row of v has n entries, all of them in the set vals
RowsIn(v, n, vals) == \A i \in DOMAIN v : Len(v[i]) = n /\ \A c \in 1..n : v[i][c] \in vals

(***************************************************************************)
(* C11: Kyber generate_keys(params) completes without error for every k in *)
(* {2, 3, 4} and returns a public key whose t has exactly k rows of n      *)
(* coefficients, every coefficient in [0, q), with A of k rows, and a      *)
(* private key whose s has k rows.                                         *)
(***************************************************************************)
C11_KyberKeysComplete ==
    (Generated("kyber") /\ arg.params.k \in {2, 3, 4})
        => /\ out.raised = "none"
           /\ Len(out.public_key.val.t) = arg.params.k
           /\ RowsIn(out.public_key.val.t, arg.params.n, 0..(arg.params.q - 1))
           /\ Len(out.public_key.val.A) = arg.params.k
           /\ Len(out.private_key.val.s) = arg.params.k

(***************************************************************************)
(* C12: Dilithium generate_keys returns A with k rows and l columns of     *)
(* length-n polynomials and t with k rows of n coefficients; t[i] is the   *)
(* coefficient-wise sum over j of polynomial_multiply(A[i][j], s1[j], q),  *)
(* reduced mod q, so every coefficient of t is in [0, q) and t is          *)
(* determined by the drawn (A, s1).                                        *)
(***************************************************************************)
RECURSIVE SumOfProducts(_, _, _, _, _)
SumOfProducts(j, c, A_i, s1, q) ==
    IF j = 0 THEN 0
    ELSE polynomial_multiply(A_i[j], s1[j], q).value[c] + SumOfProducts(j - 1, c, A_i, s1, q)

C12_DilithiumPublicT ==
    Generated("dilithium")
        => LET params == arg.params
               vk == out.verification_key.val
           IN  /\ out.raised = "none"
               /\ Len(vk.A) = params.k
               /\ \A i \in 1..params.k :
                     /\ Len(vk.A[i]) = params.l
                     /\ \A j \in 1..params.l : Len(vk.A[i][j]) = params.n
               /\ vk.A = arg.drawn.A
               /\ Len(vk.t) = params.k
               /\ RowsIn(vk.t, params.n, 0..(params.q - 1))
               /\ \A i \in 1..params.k : \A c \in 1..params.n :
                     vk.t[i][c] =
                        SumOfProducts(params.l, c, arg.drawn.A[i], arg.drawn.s1, params.q)
                           % params.q
               /\ out.signing_key.val.t = vk.t

C12_Witness ==
    /\ Generated("dilithium")
    /\ out.raised = "none"
    /\ arg.params.l = 2
    /\ \A j \in 1..2 : \E c \in 1..arg.params.n : arg.drawn.s1[j][c] = 1
    /\ out.verification_key.val.t[1][1] # 0

(***************************************************************************)
(* C13: every coefficient of the secret and noise vectors sampled during   *)
(* key generation (Kyber s and e, Dilithium s1 and s2) is a draw from      *)
(* [-eta, eta]: each integer of the interval is a possible coefficient     *)
(* value and no value outside it is.                                       *)
(***************************************************************************)
NoiseVectors ==
    IF arg.scheme = "kyber" THEN {arg.drawn.s, arg.drawn.e}
    ELSE {arg.drawn.s1, arg.drawn.s2}

\* the values one coefficient of generate_matrix(1, n, eta)[0] can take
NoiseValues(eta) == {f[1] : f \in generate_matrix_row(1, eta)}

C13_NoiseInterval ==
    step = "generated"
        => LET eta == arg.params.eta IN
           /\ \A v \in NoiseVectors : RowsIn(v, arg.params.n, (0 - eta)..eta)
           /\ NoiseValues(eta) = (0 - eta)..eta

(***************************************************************************)
(* C14: the public key returned by key generation carries no secret        *)
(* vector: the Kyber public key holds exactly A, t and seed, the Dilithium *)
(* verification key exactly rho, key_seed, A and t.                        *)
(***************************************************************************)
C14_PublicKeyHasNoSecret ==
    (step = "generated" /\ out.raised = "none")
        => IF arg.scheme = "kyber"
           THEN /\ DOMAIN out.public_key.val = {"A", "t", "seed"}
                /\ out.public_key.val.A = arg.drawn.A
                /\ out.public_key.val.seed.type = "bytes"
           ELSE /\ DOMAIN out.verification_key.val = {"rho", "key_seed", "A", "t"}
                /\ out.verification_key.val.A = arg.drawn.A
                /\ out.verification_key.val.rho.type = "bytes"
                /\ out.verification_key.val.key_seed.type = "bytes"

C14_Witness ==
    /\ Generated("dilithium")
    /\ out.raised = "none"
    /\ "s1" \in DOMAIN out.signing_key.val
    /\ out.signing_key.val.s1 = arg.drawn.s1
    /\ \E c \in 1..arg.params.n : arg.drawn.s1[1][c] = 1

(***************************************************************************)
(* Encapsulation and signatures (src/src/kyber.py, src/src/dilithium.py).  *)
(* A str is [type |-> "str", val |-> its character codes], a bool is       *)
(* [type |-> "bool", val |-> TRUE or FALSE]; the outcome of a call is      *)
(* [raised, value] with value one of these Python values.                  *)
(***************************************************************************)
DigestLen == 32      \* hashlib.sha256().digest() has 32 bytes
NonceLen == 32       \* signature[:32] is the nonce, signature[32:] the hash
SignatureLen == 64

PyBool(b) == [type |-> "bool", val |-> b]
Return(v) == [raised |-> "none", value |-> v]
Raise(e) == [raised |-> e, value |-> PyNone]

\* hashlib.sha256(data).digest() for a byte string of known values
Sha256(data) ==
    PyBytes([i \in 1..DigestLen |->
                [h |-> [p \in 1..Len(data) |-> data[p].x], i |-> i, x |-> 0]])

\* h = hashlib.sha256(); h.update(x1); h.update(x2); h.update(x3); h.digest()
\* update() of anything but a bytes-like object raises TypeError
HashThree(x1, x2, x3) ==
    IF x1.type # "bytes" \/ x2.type # "bytes" \/ x3.type # "bytes"
    THEN Raise("TypeError")
    ELSE Return(Sha256(x1.val \o x2.val \o x3.val))

derive_shared_secret(seed, message, nonce) == HashThree(seed, message, nonce)
compute_signature_hash(key_seed, message, nonce) == HashThree(key_seed, message, nonce)

\* d[key]
PyGetItem(d, key) ==
    IF d.type # "dict" THEN Raise("TypeError")
    ELSE IF key \notin DOMAIN d.val THEN Raise("KeyError")
    ELSE Return(d.val[key])

\* d.get(key, default)
PyGet(d, key, default) ==
    IF d.type # "dict" THEN Raise("AttributeError")
    ELSE Return(IF key \in DOMAIN d.val THEN d.val[key] ELSE default)

\* a faulty variant: the last pair of bytes is not compared
constant_time_compare_but_last(a, b) ==
    IF Len(a) # Len(b) THEN FALSE
    ELSE \A p \in 1..(Len(a) - 1) : a[p] = b[p]

\* utils.constant_time_compare: result |= x ^ y stays 0 iff every pair is equal
constant_time_compare(a, b) ==
    IF Len(a) # Len(b) THEN FALSE
    ELSE \A p \in 1..Len(a) : a[p] = b[p]

\* kyber.encapsulate(public_key) with the values it draws; the default of
\* public_key.get('seed', ...) is drawn whether it is used or not
encapsulate(public_key, message, nonce, fresh_seed) ==
    LET ciphertext == PyDict([c |-> message, nonce |-> nonce])
        seed == PyGet(public_key, "seed", fresh_seed)
        failed(e) == [raised |-> e, ciphertext |-> PyNone, shared_secret |-> PyNone]
    IN  IF seed.raised # "none" THEN failed(seed.raised)
        ELSE LET shared_secret == derive_shared_secret(seed.value, message, nonce)
             IN  IF shared_secret.raised # "none" THEN failed(shared_secret.raised)
                 ELSE [raised |-> "none", ciphertext |-> ciphertext,
                       shared_secret |-> shared_secret.value]

\* a faulty variant: the nonce is used in place of the message
decapsulate_try_nonce_twice(ciphertext, private_key) ==
    LET nonce == PyGetItem(ciphertext, "nonce")
        seed == PyGet(private_key, "seed", PyNone)
    IN  IF nonce.raised # "none" THEN nonce
        ELSE IF seed.raised # "none" THEN seed
        ELSE IF nonce.value.type # "bytes" \/ seed.value.type # "bytes"
        THEN Raise("ValueError")
        ELSE derive_shared_secret(seed.value, nonce.value, nonce.value)

\* kyber.decapsulate, the body of its try
decapsulate_try(ciphertext, private_key) ==
    LET message == PyGetItem(ciphertext, "c")
        nonce == PyGetItem(ciphertext, "nonce")
        seed == PyGet(private_key, "seed", PyNone)
    IN  IF message.raised # "none" THEN message
        ELSE IF nonce.raised # "none" THEN nonce
        ELSE IF seed.raised # "none" THEN seed
        ELSE IF \/ message.value.type # "bytes"
                \/ nonce.value.type # "bytes"
                \/ seed.value.type # "bytes"
        THEN Raise("ValueError")
        ELSE derive_shared_secret(seed.value, message.value, nonce.value)

\* kyber.decapsulate(ciphertext, private_key); fallback is the value of
\* secure_random_bytes(32) returned after KeyError or ValueError
decapsulate(ciphertext, private_key, fallback) ==
    LET r == decapsulate_try(ciphertext, private_key)
    IN  IF r.raised \in {"KeyError", "ValueError"} THEN Return(fallback) ELSE r

\* dilithium.sign, the body of its try; nonce is the value drawn at its start
sign_try(signing_key, message, nonce) ==
    LET key_seed == PyGetItem(signing_key, "key_seed")
    IN  IF key_seed.raised # "none" THEN key_seed
        ELSE IF message.type = "NoneType" THEN Raise("ValueError")
        ELSE IF message.type # "bytes" THEN Raise("ValueError")
        ELSE LET signature == compute_signature_hash(key_seed.value, message, nonce)
             IN  IF signature.raised # "none" THEN signature
                 ELSE Return(PyBytes(nonce.val \o signature.value.val))

\* dilithium.sign(signing_key, message); fallback is the value of
\* secure_random_bytes(64) returned after KeyError, ValueError or TypeError
sign(signing_key, message, nonce, fallback) ==
    LET r == sign_try(signing_key, message, nonce)
    IN  IF r.raised \in {"KeyError", "ValueError", "TypeError"} THEN Return(fallback)
        ELSE r

\* a faulty variant: the nonce is hashed before the message
ExpectedSignatureNonceFirst(key_seed, message, nonce) ==
    compute_signature_hash(key_seed, nonce, message)

\* expected_signature = compute_signature_hash(key_seed, message, nonce)
ExpectedSignature(key_seed, message, nonce) ==
    compute_signature_hash(key_seed, message, nonce)

\* dilithium.verify, the body of its try; len() and slicing are defined for
\* bytes and str among the values explored
verify_try(verification_key, message, signature) ==
    IF signature.type \notin {"bytes", "str"} THEN Raise("TypeError")
    ELSE IF Len(signature.val) # SignatureLen THEN Return(PyBool(FALSE))
    ELSE LET nonce == [signature EXCEPT !.val = SubSeq(@, 1, NonceLen)]
             actual_signature ==
                [signature EXCEPT !.val = SubSeq(@, NonceLen + 1, Len(@))]
             key_seed == PyGet(verification_key, "key_seed", PyNone)
         IN  IF key_seed.raised # "none" THEN key_seed
             ELSE IF key_seed.value.type = "NoneType" THEN Return(PyBool(FALSE))
             ELSE LET expected_signature ==
                         ExpectedSignature(key_seed.value, message, nonce)
                  IN  IF expected_signature.raised # "none" THEN expected_signature
                      ELSE Return(PyBool(constant_time_compare(
                                     actual_signature.val, expected_signature.value.val)))

\* a faulty variant: only the exceptions sign catches are caught
CatchSome(r) ==
    IF r.raised \in {"KeyError", "ValueError", "TypeError"} THEN Return(PyBool(FALSE))
    ELSE r

\* except: return False
CatchAll(r) == IF r.raised # "none" THEN Return(PyBool(FALSE)) ELSE r

\* dilithium.verify(verification_key, message, signature)
verify(verification_key, message, signature) ==
    CatchAll(verify_try(verification_key, message, signature))

(***************************************************************************)
(* The wallet (src/src/bitcoin_protection.py).                             *)
(***************************************************************************)
TxHashLen == 64      \* _is_valid_tx_hash: len(tx_hash) == 64

\* the character of one hexadecimal digit, as bytes.hex() writes it
HexChar(v) == IF v < 10 THEN 48 + v ELSE 87 + v

\* the value of a hexadecimal character, -1 if it is none
HexVal(c) ==
    IF c >= 48 /\ c <= 57 THEN c - 48
    ELSE IF c >= 97 /\ c <= 102 THEN c - 87
    ELSE IF c >= 65 /\ c <= 70 THEN c - 55
    ELSE 0 - 1

\* b.hex() for a byte string of known values
BytesHex(b) ==
    PyStr([p \in 1..(2 * Len(b.val)) |->
              LET x == b.val[(p + 1) \div 2].x
              IN  HexChar(IF p % 2 = 1 THEN x \div 16 ELSE x % 16)])

\* bytes.fromhex(s)
BytesFromHex(s) ==
    IF s.type # "str" THEN Raise("TypeError")
    ELSE IF Len(s.val) % 2 # 0 \/ \E p \in 1..Len(s.val) : HexVal(s.val[p]) < 0
    THEN Raise("ValueError")
    ELSE Return(PyBytes([p \in 1..(Len(s.val) \div 2) |->
                            RawByte(16 * HexVal(s.val[2 * p - 1]) + HexVal(s.val[2 * p]))]))

\* s.encode()
StrEncode(s) == PyBytes([p \in 1..Len(s.val) |-> RawByte(s.val[p])])

\* ProtectedTransaction.serialize: str(data).encode() of the dict of tx_hash,
\* btc_pubkey, quantum_pubkey and timestamp (the signature is not part of it);
\* the constant text between the four values is reduced to one comma
serialize(tx) ==
    StrEncode(PyStr(tx.tx_hash.val \o <<44>> \o tx.btc_pubkey.val \o <<44>>
                    \o tx.quantum_pubkey.val \o <<44>> \o tx.timestamp.val))

\* QuantumProtectedWallet._is_valid_tx_hash
is_valid_tx_hash(tx_hash) ==
    /\ tx_hash.type = "str"
    /\ Len(tx_hash.val) = TxHashLen
    /\ \A p \in 1..Len(tx_hash.val) : HexVal(tx_hash.val[p]) >= 0

\* QuantumProtectedWallet.protect_transaction(tx_hash); timestamp is the
\* class's default, nonce and fallback are what sign draws
protect_transaction(wallet, tx_hash, timestamp, nonce, fallback) ==
    IF ~is_valid_tx_hash(tx_hash) THEN Raise("ValueError")
    ELSE LET quantum_pubkey == PyGetItem(wallet.quantum_public_key, "key_seed")
             protected_tx ==
                [tx_hash |-> tx_hash,
                 btc_pubkey |-> wallet.btc_public_key,
                 quantum_pubkey |-> BytesHex(quantum_pubkey.value),
                 quantum_signature |-> PyBytes(<<>>),
                 timestamp |-> timestamp]
             signature ==
                sign(wallet.quantum_private_key, serialize(protected_tx), nonce, fallback)
         IN  Return([type |-> "ProtectedTransaction",
                     val |-> [protected_tx EXCEPT !.quantum_signature = signature.value]])

\* QuantumProtectedWallet.verify_protected_transaction(protected_tx)
verify_protected_transaction(protected_tx) ==
    LET key == BytesFromHex(protected_tx.val.quantum_pubkey)
    IN  IF key.raised # "none" THEN Return(PyBool(FALSE))
        ELSE LET r == verify(key.value, serialize(protected_tx.val),
                             protected_tx.val.quantum_signature)
             IN  IF r.raised # "none" THEN Return(PyBool(FALSE)) ELSE r

(***************************************************************************)
(* Scenarios of encapsulation, signature and wallet calls.  Init chooses   *)
(* the scenario and its keys; each call is one action that draws the       *)
(* call's random values and records what the call returned in out.         *)
(*   "kem":    encapsulate, decapsulate, and again                         *)
(*   "sig":    sign, then verify of that signature, of a changed one, or   *)
(*             of malformed arguments                                      *)
(*   "wallet": protect_transaction, then verify_protected_transaction      *)
(***************************************************************************)
ByteZeros(len) == PyBytes([p \in 1..len |-> RawByte(0)])

\* the key pairs generate_keys returns, for the smallest parameter objects
DilithiumKeyPairs ==
    {dilithium_generate_keys(
        [DilithiumParams EXCEPT !.k = 1, !.l = 1, !.n = 1, !.q = 5],
        ByteZeros(SeedLen), key_seed, <<<<<<1>>>>>>, <<<<1>>>>, <<<<0>>>>) :
        key_seed \in secure_random_bytes(SeedLen)}

KyberKeyPairs ==
    {kyber_generate_keys(KyberParams(0), <<>>, <<>>, <<>>, key_seed) :
        key_seed \in secure_random_bytes(SeedLen)}

\* Bounds: the arguments the calls are explored with
MaxRounds == 2       \* encapsulations performed with one public key
SignMessages ==
    {PyBytes(<<>>), PyBytes(<<RawByte(1)>>), PyBytes(<<RawByte(2)>>),
     PyBytes(<<RawByte(1), RawByte(2)>>), PyNone, PyStr(<<109>>)}
TamperPositions == {1, 32, 33, 64}    \* 1-based positions of a changed byte
TamperMasks == {1, 255}               \* what is xor-ed into it
TxHashes ==
    {PyStr([p \in 1..64 |-> 97]), PyStr([p \in 1..64 |-> IF p = 1 THEN 70 ELSE 48]),
     PyStr(<<>>), PyStr([p \in 1..64 |-> 120]), PyStr([p \in 1..63 |-> 48]), PyNone}
BtcKeySamples == {PyStr([p \in 1..64 |-> 98])}
Timestamps == {PyStr(<<50, 48, 50, 52>>)}

\* a ^ b on bytes
RECURSIVE ByteXor(_, _)
ByteXor(a, b) ==
    IF a = 0 /\ b = 0 THEN 0
    ELSE ((a + b) % 2) + 2 * ByteXor(a \div 2, b \div 2)

\* signature[:p] + bytes([signature[p] ^ mask]) + signature[p+1:]
FlipByte(signature, p, mask) ==
    [signature EXCEPT !.val[p].x = ByteXor(@, mask)]

MalformedKeys(verification_key) ==
    {PyNone,
     verification_key.val.key_seed,
     PyDict([rho |-> verification_key.val.rho]),
     PyDict([key_seed |-> PyNone]),
     PyDict([key_seed |-> PyStr(<<107>>)])}

\* what verify is called with in place of the signature sign returned
SignatureVariants(signature, signing_key, message) ==
    {signature}
    \cup {FlipByte(signature, p, mask) : p \in TamperPositions, mask \in TamperMasks}
    \cup {FlipByte(FlipByte(signature, 1, 1), SignatureLen, 1)}
    \cup {PyBytes(SubSeq(signature.val, 1, SignatureLen - 1)),
          PyBytes(signature.val \o <<RawByte(0)>>),
          PyBytes(<<>>)}
    \cup {PyNone, PyStr([p \in 1..SignatureLen |-> 120])}
    \cup {sign(signing_key, message, nonce, ByteZeros(SignatureLen)).value :
             nonce \in secure_random_bytes(NonceLen)}

Wallets ==
    {[quantum_private_key |-> kp.signing_key,
      quantum_public_key |-> kp.verification_key,
      btc_public_key |-> b] : kp \in DilithiumKeyPairs, b \in BtcKeySamples}

InitSig ==
    /\ ArithIdle
    /\ out = <<>>
    /\ \/ /\ step = "kem"
          /\ \E public_key \in {kp.public_key : kp \in KyberKeyPairs}
                                  \cup {PyDict([A |-> <<>>, t |-> <<>>])},
                private_key \in {kp.private_key : kp \in KyberKeyPairs}
                                   \cup {PyDict([s |-> <<>>])} :
                arg = [scenario |-> "kem", public_key |-> public_key,
                       private_key |-> private_key]
       \/ /\ step = "sig"
          /\ \E kp \in DilithiumKeyPairs, message \in SignMessages :
                arg = [scenario |-> "sig", signing_key |-> kp.signing_key,
                       verification_key |-> kp.verification_key, message |-> message]
       \/ /\ step = "wallet"
          /\ \E wallet \in Wallets, tx_hash \in TxHashes, timestamp \in Timestamps :
                arg = [scenario |-> "wallet", wallet |-> wallet, tx_hash |-> tx_hash,
                       timestamp |-> timestamp]

Encapsulate ==
    /\ \/ step = "kem"
       \/ step = "decapsulated" /\ out.round < MaxRounds
    /\ \E message \in secure_random_bytes(SeedLen), nonce \in secure_random_bytes(SeedLen),
          fresh_seed \in secure_random_bytes(SeedLen) :
          out' = [round |-> IF step = "kem" THEN 1 ELSE out.round + 1,
                  encapsulated |-> encapsulate(arg.public_key, message, nonce, fresh_seed)]
    /\ step' = "encapsulated"
    /\ UNCHANGED <<arithvars, arg>>

Decapsulate ==
    /\ step = "encapsulated"
    /\ out.encapsulated.raised = "none"
    /\ \E fallback \in secure_random_bytes(SeedLen) :
          out' = [round |-> out.round,
                  encapsulated |-> out.encapsulated,
                  decapsulated |-> decapsulate(out.encapsulated.ciphertext,
                                               arg.private_key, fallback)]
    /\ step' = "decapsulated"
    /\ UNCHANGED <<arithvars, arg>>

Sign ==
    /\ step = "sig"
    /\ \E nonce \in secure_random_bytes(NonceLen),
          fallback \in secure_random_bytes(SignatureLen) :
          out' = [signature |-> sign(arg.signing_key, arg.message, nonce, fallback).value]
    /\ step' = "signed"
    /\ UNCHANGED <<arithvars, arg>>

Verify ==
    /\ step = "signed"
    /\ \E verification_key \in {kp.verification_key : kp \in DilithiumKeyPairs}
                                  \cup MalformedKeys(arg.verification_key),
          message \in SignMessages,
          signature \in SignatureVariants(out.signature, arg.signing_key, arg.message) :
          out' = [signature |-> out.signature,
                  verification_key |-> verification_key,
                  message |-> message,
                  verified |-> signature,
                  verdict |-> verify(verification_key, message, signature)]
    /\ step' = "verified"
    /\ UNCHANGED <<arithvars, arg>>

ProtectTransaction ==
    /\ step = "wallet"
    /\ \E nonce \in secure_random_bytes(NonceLen),
          fallback \in secure_random_bytes(SignatureLen) :
          out' = [protected_tx |->
                     protect_transaction(arg.wallet, arg.tx_hash, arg.timestamp,
                                         nonce, fallback)]
    /\ step' = "protected"
    /\ UNCHANGED <<arithvars, arg>>

\* called on the wallet that protected the transaction or on another one:
\* the method does not use self
VerifyProtectedTransaction ==
    /\ step = "protected"
    /\ out.protected_tx.raised = "none"
    /\ \E verifier \in Wallets :
          out' = [protected_tx |-> out.protected_tx,
                  verifier |-> verifier,
                  accepted |-> verify_protected_transaction(out.protected_tx.value)]
    /\ step' = "wallet_verified"
    /\ UNCHANGED <<arithvars, arg>>

NextSig ==
    \/ Encapsulate
    \/ Decapsulate
    \/ Sign
    \/ Verify
    \/ ProtectTransaction
    \/ VerifyProtectedTransaction

SpecSig == InitSig /\ [][NextSig]_vars

\* the two keys hold the same bytes under the name field
SameSeed(key1, key2, field) ==
    /\ key1.type = "dict"
    /\ key2.type = "dict"
    /\ field \in DOMAIN key1.val
    /\ field \in DOMAIN key2.val
    /\ key1.val[field].type = "bytes"
    /\ key2.val[field].type = "bytes"
    /\ key1.val[field].val = key2.val[field].val

\* two Python values of the kinds explored are the same value
SameValue(v, w) == v.type = w.type /\ v.val = w.val

(***************************************************************************)
(* C15: for a Kyber public key and private key with equal 'seed' and every *)
(* (ciphertext, shared secret) returned by encapsulate(public_key),        *)
(* decapsulate(ciphertext, private_key) returns exactly that shared        *)
(* secret, for each of several encapsulations with the same public key.    *)
(***************************************************************************)
C15_DecapsulateRecovers ==
    (step = "decapsulated" /\ SameSeed(arg.public_key, arg.private_key, "seed"))
        => /\ out.decapsulated.raised = "none"
           /\ SameValue(out.decapsulated.value, out.encapsulated.shared_secret)

C15_Witness ==
    /\ step = "decapsulated"
    /\ SameSeed(arg.public_key, arg.private_key, "seed")
    /\ out.round = 2
    /\ out.encapsulated.ciphertext.val.c.val # out.encapsulated.ciphertext.val.nonce.val
    /\ SameValue(out.decapsulated.value, out.encapsulated.shared_secret)

(***************************************************************************)
(* C16: for a signing key and verification key with equal 'key_seed' and   *)
(* every bytes message m, verify(verification_key, m, sign(signing_key,    *)
(* m)) returns True.                                                       *)
(***************************************************************************)
VerifiedAsSigned ==
    /\ step = "verified"
    /\ arg.message.type = "bytes"
    /\ SameValue(out.message, arg.message)
    /\ SameValue(out.verified, out.signature)
    /\ SameSeed(out.verification_key, arg.signing_key, "key_seed")

C16_VerifyAcceptsSignature ==
    VerifiedAsSigned
        => /\ out.verdict.raised = "none"
           /\ SameValue(out.verdict.value, PyBool(TRUE))

C16_Witness ==
    /\ VerifiedAsSigned
    /\ Len(arg.message.val) = 2
    /\ out.signature.val[1].x = 255
    /\ SameValue(out.verdict.value, PyBool(TRUE))

(***************************************************************************)
(* C17 as stated: given sig = sign(signing_key, m), verify returns False   *)
(* whenever it is called with a message different from m, with a signature *)
(* that differs from sig in any byte, or with the verification key of a    *)
(* different key pair.                                                     *)
(***************************************************************************)
WellSized(signature) ==
    signature.type = "bytes" /\ Len(signature.val) = SignatureLen

SameNonce ==
    /\ WellSized(out.verified)
    /\ SubSeq(out.verified.val, 1, NonceLen) = SubSeq(out.signature.val, 1, NonceLen)

SameHash ==
    /\ WellSized(out.verified)
    /\ SubSeq(out.verified.val, NonceLen + 1, SignatureLen)
          = SubSeq(out.signature.val, NonceLen + 1, SignatureLen)

SameKeyAndMessage ==
    /\ SameValue(out.message, arg.message)
    /\ SameSeed(out.verification_key, arg.signing_key, "key_seed")

OtherPairKey ==
    /\ out.verification_key \in {kp.verification_key : kp \in DilithiumKeyPairs}
    /\ ~SameSeed(out.verification_key, arg.signing_key, "key_seed")

C17_RejectsEveryChange ==
    (/\ step = "verified"
     /\ arg.message.type = "bytes"
     /\ \/ ~SameValue(out.message, arg.message)
        \/ ~SameValue(out.verified, out.signature)
        \/ OtherPairKey)
        => SameValue(out.verdict.value, PyBool(FALSE))

(***************************************************************************)
(* C17 amended: given sig = sign(signing_key, m) for a bytes message m,    *)
(* verify returns False when called with a bytes signature whose length is *)
(* not 64; with a signature whose last 32 bytes are those of sig and a     *)
(* different message, a verification key with a different key_seed, or     *)
(* different first 32 bytes; and with m, the same key_seed and a signature *)
(* that differs from sig in its last 32 bytes only.                        *)
(***************************************************************************)
C17_RejectsTampering ==
    (/\ step = "verified"
     /\ arg.message.type = "bytes"
     /\ \/ out.verified.type = "bytes" /\ Len(out.verified.val) # SignatureLen
        \/ SameHash /\ (~SameKeyAndMessage \/ ~SameNonce)
        \/ SameNonce /\ ~SameHash /\ SameKeyAndMessage)
        => SameValue(out.verdict.value, PyBool(FALSE))

C17_Witness ==
    /\ step = "verified"
    /\ arg.message.type = "bytes"
    /\ Len(arg.message.val) = 1
    /\ SameKeyAndMessage
    /\ SameValue(out.verified, FlipByte(out.signature, SignatureLen, 1))
    /\ SameValue(out.verdict.value, PyBool(FALSE))

(***************************************************************************)
(* C18: verify never raises: for a signature whose length is not 64, a     *)
(* None signature, a verification key without 'key_seed', or any other     *)
(* malformed verification key, message or signature, it returns False.     *)
(***************************************************************************)
MalformedCall ==
    \/ ~WellSized(out.verified)
    \/ out.message.type # "bytes"
    \/ out.verification_key.type # "dict"
    \/ /\ out.verification_key.type = "dict"
       /\ \/ "key_seed" \notin DOMAIN out.verification_key.val
          \/ /\ "key_seed" \in DOMAIN out.verification_key.val
             /\ out.verification_key.val.key_seed.type # "bytes"

C18_VerifyNeverRaises ==
    step = "verified"
        => /\ out.verdict.raised = "none"
           /\ out.verdict.value.type = "bool"
           /\ MalformedCall => SameValue(out.verdict.value, PyBool(FALSE))

C18_Witness ==
    /\ step = "verified"
    /\ out.verification_key.type = "bytes"
    /\ out.message.type = "NoneType"
    /\ SameValue(out.verified, out.signature)
    /\ out.verdict.raised = "none"
    /\ SameValue(out.verdict.value, PyBool(FALSE))

(***************************************************************************)
(* C19: for every wallet W and every valid transaction hash h, the         *)
(* ProtectedTransaction returned by W.protect_transaction(h) is accepted:  *)
(* verify_protected_transaction of W, and of any other wallet, returns     *)
(* True for it.                                                            *)
(***************************************************************************)
C19_ProtectedTransactionAccepted ==
    (step = "wallet_verified" /\ is_valid_tx_hash(arg.tx_hash))
        => /\ out.accepted.raised = "none"
           /\ SameValue(out.accepted.value, PyBool(TRUE))

(***************************************************************************)
(* C28: for every modulus m >= 2 outside the hardcoded set, prime or not,  *)
(* the candidate search of find_primitive_root ends (the candidate m       *)
(* itself passes the test, since m^e mod m = 0 for e >= 1) and the value   *)
(* a it returns satisfies 2 <= a <= m.                                     *)
(***************************************************************************)
C28_SearchEndsByModulus ==
    (Done("find_primitive_root") /\ modulus >= 2 /\ modulus \notin HardcodedPrimes)
    => /\ is_primitive_root(modulus, modulus, prime_factors(modulus))
       /\ ret >= 2
       /\ ret <= modulus

\* the bound is attained: the search for modulus 2 returns 2
C28_Witness ==
    /\ Done("find_primitive_root")
    /\ modulus = 2 /\ ret = 2

(***************************************************************************)
(* C25: ntt_transform(p, q) returns the discrete Fourier transform of p    *)
(* over Z_q: for q an odd prime and n = len(p) a power of two dividing     *)
(* q - 1, output[k] = sum over j of p[j] * omega^(j*k) mod q, where        *)
(* omega = g^((q-1)/n) and g = find_primitive_root(q) (the result of a     *)
(* bit-reversal permutation followed by log2(n) butterfly stages).         *)
(***************************************************************************)
\* sum over j = i .. n-1 of p[j] * w^(j*k) mod q
RECURSIVE DftSum(_, _, _, _, _)
DftSum(p, w, k, i, q) ==
    IF i >= Len(p) THEN 0
    ELSE (p[i + 1] * PowMod(w, i * k, q) + DftSum(p, w, k, i + 1, q)) % q

Dft(p, q) ==
    LET w == PowMod(find_primitive_root(q), (q - 1) \div Len(p), q)
    IN  [k \in 1..Len(p) |-> DftSum(p, w, k - 1, 0, q)]

C25_NttIsFourierSum ==
    (Done("ntt_transform") /\ IsOddPrime(modulus) /\ Len(pa) >= 1
        /\ IsPowerOfTwo(Len(pa)) /\ Divides(Len(pa), modulus - 1)
        /\ InRange(pa, modulus))
    => /\ raised = "none"
       /\ result = Dft(pa, modulus)

(***************************************************************************)
(* The accumulation of t, one cell at a time.  The body of the inner loop  *)
(* of generate_keys (product = polynomial_multiply(...); t[i] = (t[i] +    *)
(* product) % q) is one step for the cell (i, j); the steps of the cells   *)
(* are taken in any order.  Init draws the parameter object, A and the     *)
(* secret vector (and e for Kyber); out.order lists the cells done so far. *)
(* An exception of a step ends the computation.                            *)
(***************************************************************************)
Columns(a) == IF a.scheme = "kyber" THEN a.params.k ELSE a.params.l

Cells(a) == (1..a.params.k) \X (1..Columns(a))

CellsDone(o) == {o.order[x] : x \in 1..Len(o.order)}

\* the call of polynomial_multiply for cell (i, j)
CellProduct(a, cell) ==
    IF a.scheme = "kyber"
    THEN polynomial_multiply_call(<<a.A[cell[1]][cell[2]], a.s[cell[2]],
                                    a.params.q, a.params.n>>)
    ELSE polynomial_multiply_call(<<a.A[cell[1]][cell[2]], a.s[cell[2]], a.params.q>>)

\* what follows the call in the loop body: t[i] = (t[i] + product) % q
CellNext(product, cell, a, o) ==
    IF product.raised # "none"
    THEN [o EXCEPT !.raised = product.raised, !.order = Append(@, cell)]
    ELSE [o EXCEPT !.t[cell[1]] =
                       IF a.scheme = "kyber" THEN AddMod(@, product.value, a.params.q)
                       ELSE DilithiumAccumulate(@, product.value, a.params.q),
                   !.order = Append(@, cell)]

\* what the loops of generate_keys return for the same draw, in their own order
SequentialT(a) ==
    IF a.scheme = "kyber"
    THEN KyberRows(1, Zeros(a.params.k, a.params.n), a.A, a.s, a.e, a.params)
    ELSE DilithiumRows(1, Zeros(a.params.k, a.params.n), a.A, a.s, a.params)

InitOrder ==
    /\ ArithIdle
    /\ step = "accumulate"
    /\ \/ \E sh \in KyberShapes :
             LET params == [KyberParams(sh[1]) EXCEPT !.n = sh[2]] IN
             \E A \in [1..params.k -> [1..params.k -> [1..params.n -> MatrixVals(params.q)]]],
                s \in [1..params.k -> generate_matrix_row(params.n, params.eta)],
                e \in [1..params.k -> generate_matrix_row(params.n, params.eta)] :
                   arg = [scheme |-> "kyber", params |-> params, A |-> A, s |-> s, e |-> e]
       \/ \E sh \in DilithiumShapes, q \in KeyModuli :
             LET params == [DilithiumParams EXCEPT !.k = sh[1], !.l = sh[2],
                                                   !.n = sh[3], !.q = q] IN
             \E A \in [1..params.k -> [1..params.l -> [1..params.n -> MatrixVals(params.q)]]],
                s1 \in [1..params.l -> generate_matrix_row(params.n, params.eta)] :
                   arg = [scheme |-> "dilithium", params |-> params, A |-> A, s |-> s1,
                          e |-> <<>>]
    /\ out = [raised |-> "none", t |-> Zeros(arg.params.k, arg.params.n), order |-> <<>>]

\* one multiply-and-add step, for any cell not done yet
AccumulateCell ==
    /\ step = "accumulate"
    /\ \E cell \in Cells(arg) \ CellsDone(out) :
          out' = CellNext(CellProduct(arg, cell), cell, arg, out)
    /\ step' = IF out'.raised = "none" THEN "accumulate" ELSE "accumulated"
    /\ UNCHANGED <<arg, arithvars>>

\* all cells are done: Kyber has added e[i] to row i after the row's cells
FinishRows ==
    /\ step = "accumulate"
    /\ CellsDone(out) = Cells(arg)
    /\ out' = [out EXCEPT !.t = IF arg.scheme = "kyber"
                                THEN [i \in 1..arg.params.k |->
                                         AddMod(@[i], arg.e[i], arg.params.q)]
                                ELSE @]
    /\ step' = "accumulated"
    /\ UNCHANGED <<arg, arithvars>>

NextOrder ==
    \/ AccumulateCell
    \/ FinishRows

SpecOrder == InitOrder /\ [][NextOrder]_vars

(***************************************************************************)
(* C26: for a fixed draw of A and the secret vector, t does not depend on  *)
(* the order in which the per-cell products are computed and accumulated:  *)
(* every interleaving of the multiply-and-add-mod-q steps ends with the    *)
(* outcome of the loops of generate_keys, the same t (or the same          *)
(* exception).                                                             *)
(***************************************************************************)
C26_OrderIndependent ==
    step = "accumulated"
        => /\ out.raised = SequentialT(arg).raised
           /\ out.raised = "none" => out.t = SequentialT(arg).value

\* two rows of two cells, taken in the reverse of the loops' order
C26_Witness ==
    /\ step = "accumulated"
    /\ arg.scheme = "dilithium"
    /\ out.raised = "none"
    /\ out.order = <<<<2, 2>>, <<2, 1>>, <<1, 2>>, <<1, 1>>>>
    /\ \A i \in 1..2 : out.t[i][1] # 0
    /\ polynomial_multiply(arg.A[1][1], arg.s[1], arg.params.q).value
          # polynomial_multiply(arg.A[1][2], arg.s[2], arg.params.q).value

(***************************************************************************)
(* The example applications (src/examples/secure_messaging.py and          *)
(* src/examples/web_api_example.py).  Both create their users' keys with   *)
(* kyber_keygen() and dilithium_keygen(), called without arguments.        *)
(* Strings are character codes; a datetime is the record of its fields.    *)
(***************************************************************************)
AuthWindow == 300    \* seconds a timestamp may differ from the server clock

\* Bounds: the calls of the applications that are explored
MaxRequests == 2     \* requests sent to the web API in one behaviour
UserIds == {PyStr(<<97, 108, 105, 99, 101>>), PyStr(<<98, 111, 98>>)}  \* alice, bob
Clocks ==            \* datetime.utcnow() of the server
    {[year |-> 2026, month |-> 11, day |-> 1, hour |-> 0, minute |-> 2, second |-> 0],
     [year |-> 2026, month |-> 11, day |-> 1, hour |-> 12, minute |-> 0, second |-> 0]}
\* the clock of a client: the server's, one minute ahead, seven minutes ahead
ClientClocks(now) == {now, [now EXCEPT !.minute = @ + 1], [now EXCEPT !.minute = @ + 7]}
TimestampForms == {"extended", "basic", "date"}
\* the signature texts sent: the hex of 64 zero bytes, "deadbeef", and
\* "3q2+7w==" (base64, what tests/test_examples.py sends)
SignatureTexts ==
    {PyStr([p \in 1..(2 * SignatureLen) |-> 48]),
     PyStr(<<100, 101, 97, 100, 98, 101, 101, 102>>),
     PyStr(<<51, 113, 50, 43, 55, 119, 61, 61>>)}
\* kyber_keygen(): KyberParams() has k = KYBER_K; n is bounded to 1 and the
\* coefficients of A that are explored to the value 1
DefaultKyberParams == [KyberParams(KYBER_K) EXCEPT !.n = 1]
DefaultKyberDraws ==
    LET kparams == DefaultKyberParams IN
    {[A |-> A, s |-> s, e |-> e, key_seed |-> key_seed] :
        A \in [1..kparams.k -> [1..kparams.k -> [1..kparams.n -> {1}]]],
        s \in [1..kparams.k -> generate_matrix_row(kparams.n, kparams.eta)],
        e \in [1..kparams.k -> generate_matrix_row(kparams.n, kparams.eta)],
        key_seed \in secure_random_bytes(SeedLen)}

\* kyber_keygen() with the values it draws
kyber_keygen(drawn) ==
    kyber_generate_keys(DefaultKyberParams, drawn.A, drawn.s, drawn.e, drawn.key_seed)

(***************************************************************************)
(* secure_messaging.py                                                     *)
(***************************************************************************)
\* SecureMessagingSession.__init__(user_id) from line 73 on: kp is what
\* kyber_keygen() returned, dp what dilithium_keygen() returned
NewSessionNext(user_id, kp, dp) ==
    IF kp.raised # "none" THEN Raise(kp.raised)
    ELSE IF dp.raised # "none" THEN Raise(dp.raised)
    ELSE Return([type |-> "SecureMessagingSession",
                 val |-> [user_id |-> user_id,
                          enc_public_key |-> kp.public_key,
                          enc_private_key |-> kp.private_key,
                          sign_private_key |-> dp.signing_key,
                          sign_public_key |-> dp.verification_key,
                          sessions |-> PyDict(<<>>),
                          message_chain |-> PyDict(<<>>)]])

\* SecureMessagingSession(user_id)
NewSession(user_id, drawn, dp) == NewSessionNext(user_id, kyber_keygen(drawn), dp)

(***************************************************************************)
(* web_api_example.py                                                      *)
(***************************************************************************)
\* s.startswith(prefix)
StartsWith(s, prefix) ==
    Len(s) >= Len(prefix) /\ SubSeq(s, 1, Len(prefix)) = prefix

\* s.split(sep) for a one-character separator: the fields are what lies
\* between the start, the occurrences of sep in ascending order, and the end
StrSplit(s, sep) ==
    LET seps == {p \in 1..Len(s) : s[p] = sep}
        cut(k) == IF k = 0 THEN 0
                  ELSE IF k = Cardinality(seps) + 1 THEN Len(s) + 1
                  ELSE CHOOSE p \in seps : Cardinality({r \in seps : r < p}) = k - 1
    IN  [k \in 1..(Cardinality(seps) + 1) |-> SubSeq(s, cut(k - 1) + 1, cut(k) - 1)]

IsDigit(c) == c >= 48 /\ c <= 57

\* int(s) for a string of digits
RECURSIVE DigitsVal(_)
DigitsVal(s) ==
    IF s = <<>> THEN 0
    ELSE 10 * DigitsVal(SubSeq(s, 1, Len(s) - 1)) + (s[Len(s)] - 48)

AllDigits(s, positions) == \A p \in positions : IsDigit(s[p])

\* the calendar of the datetime module
IsLeap(y) == y % 4 = 0 /\ (y % 100 # 0 \/ y % 400 = 0)

DaysInMonth(y, m) ==
    IF m = 2 THEN (IF IsLeap(y) THEN 29 ELSE 28)
    ELSE IF m \in {4, 6, 9, 11} THEN 30
    ELSE 31

DaysBeforeYear(y) ==
    365 * (y - 1) + ((y - 1) \div 4) - ((y - 1) \div 100) + ((y - 1) \div 400)

RECURSIVE DaysBeforeMonth(_, _)
DaysBeforeMonth(y, m) ==
    IF m <= 1 THEN 0 ELSE DaysInMonth(y, m - 1) + DaysBeforeMonth(y, m - 1)

ToOrdinal(d) == DaysBeforeYear(d.year) + DaysBeforeMonth(d.year, d.month) + d.day

\* (a - b).total_seconds()
TotalSeconds(a, b) ==
    (ToOrdinal(a) - ToOrdinal(b)) * 86400
       + ((a.hour - b.hour) * 60 + (a.minute - b.minute)) * 60 + (a.second - b.second)

Abs(x) == IF x < 0 THEN 0 - x ELSE x

TwoDigits(x) == <<48 + (x \div 10), 48 + (x % 10)>>

FourDigits(x) == TwoDigits(x \div 100) \o TwoDigits(x % 100)

\* d.date().isoformat(): YYYY-MM-DD
DateIsoformat(d) ==
    FourDigits(d.year) \o <<45>> \o TwoDigits(d.month) \o <<45>> \o TwoDigits(d.day)

\* d.isoformat() of a datetime without microseconds: YYYY-MM-DDTHH:MM:SS
isoformat(d) ==
    PyStr(DateIsoformat(d) \o <<84>> \o TwoDigits(d.hour) \o <<58>>
          \o TwoDigits(d.minute) \o <<58>> \o TwoDigits(d.second))

\* the timestamp a client writes for its clock d in one of the ISO 8601
\* forms: extended (isoformat()), basic time (YYYY-MM-DDTHHMMSS), date only
ClientTimestamp(d, form) ==
    IF form = "extended" THEN isoformat(d)
    ELSE IF form = "basic"
    THEN PyStr(DateIsoformat(d) \o <<84>> \o TwoDigits(d.hour) \o TwoDigits(d.minute)
               \o TwoDigits(d.second))
    ELSE PyStr(DateIsoformat(d))

\* the instant such a timestamp denotes
ClientInstant(d, form) ==
    IF form = "date" THEN [d EXCEPT !.hour = 0, !.minute = 0, !.second = 0] ELSE d

\* the fields of a valid date and time, or ValueError
DateTimeOf(y, mo, d, h, mi, sec) ==
    IF /\ y >= 1 /\ mo \in 1..12 /\ d >= 1 /\ d <= DaysInMonth(y, mo)
       /\ h <= 23 /\ mi <= 59 /\ sec <= 59
    THEN Return([type |-> "datetime",
                 val |-> [year |-> y, month |-> mo, day |-> d, hour |-> h,
                          minute |-> mi, second |-> sec]])
    ELSE Raise("ValueError")

\* datetime.fromisoformat(s) for the forms YYYY-MM-DD, YYYY-MM-DDTHHMMSS and
\* YYYY-MM-DDTHH:MM:SS; any other string explored is no ISO 8601 string
fromisoformat(s) ==
    LET t == s.val
        date_ok == /\ Len(t) >= 10
                   /\ AllDigits(t, {1, 2, 3, 4, 6, 7, 9, 10})
                   /\ t[5] = 45 /\ t[8] = 45
        y == DigitsVal(SubSeq(t, 1, 4))
        mo == DigitsVal(SubSeq(t, 6, 7))
        d == DigitsVal(SubSeq(t, 9, 10))
    IN  IF s.type # "str" THEN Raise("TypeError")
        ELSE IF ~date_ok THEN Raise("ValueError")
        ELSE IF Len(t) = 10 THEN DateTimeOf(y, mo, d, 0, 0, 0)
        ELSE IF Len(t) = 17 /\ AllDigits(t, 12..17)
        THEN DateTimeOf(y, mo, d, DigitsVal(SubSeq(t, 12, 13)),
                        DigitsVal(SubSeq(t, 14, 15)), DigitsVal(SubSeq(t, 16, 17)))
        ELSE IF /\ Len(t) = 19 /\ AllDigits(t, {12, 13, 15, 16, 18, 19})
                /\ t[14] = 58 /\ t[17] = 58
        THEN DateTimeOf(y, mo, d, DigitsVal(SubSeq(t, 12, 13)),
                        DigitsVal(SubSeq(t, 15, 16)), DigitsVal(SubSeq(t, 18, 19)))
        ELSE Raise("ValueError")

\* what a view returns: jsonify({'error': error}), status; a request that
\* reaches the endpoint handler gets the handler's response (status 0 here)
Response(status, error) == [status |-> status, error |-> error, handler |-> FALSE]
HandlerResponse == [status |-> 0, error |-> "", handler |-> TRUE]

\* f"{user_id}:{timestamp}".encode()
AuthMessage(user_id, stamp) == StrEncode(PyStr(user_id.val \o <<58>> \o stamp.val))

\* require_auth from line 73 on: verified is what verify(...) returned
AuthVerified(verified) ==
    IF verified.raised # "none" THEN Response(401, verified.raised)
    ELSE IF ~verified.value.val THEN Response(401, "Invalid signature")
    ELSE HandlerResponse

\* require_auth from line 70 on: parsed is what fromisoformat returned
AuthTimestamp(parsed, user_id, stamp, sig, users, now) ==
    IF parsed.raised # "none" THEN Response(401, parsed.raised)
    ELSE IF Abs(TotalSeconds(now, parsed.value.val)) > AuthWindow
    THEN Response(401, "Authentication expired")
    ELSE AuthVerified(verify(users[user_id.val].val.sign_public_key,
                             AuthMessage(user_id, stamp), sig))

\* require_auth from line 65 on: sig is what bytes.fromhex returned
AuthUser(user_id, stamp, sig, users, now) ==
    IF sig.raised # "none" THEN Response(401, sig.raised)
    ELSE IF user_id.val \notin DOMAIN users THEN Response(404, "User not found")
    ELSE AuthTimestamp(fromisoformat(stamp), user_id, stamp, sig.value, users, now)

\* require_auth from line 59 on
AuthParts(auth_parts, users, now) ==
    IF Len(auth_parts) # 3 THEN Response(401, "Invalid auth format")
    ELSE AuthUser(PyStr(auth_parts[1]), PyStr(auth_parts[2]),
                  BytesFromHex(PyStr(auth_parts[3])), users, now)

\* the wrapper require_auth puts around an endpoint: auth is the value of
\* the Authorization header, None if the request has none
require_auth(auth, users, now) ==
    IF auth.type = "NoneType" THEN Response(401, "Missing authentication")
    ELSE IF auth.val = <<>> \/ ~StartsWith(auth.val, <<81, 82, 32>>)
    THEN Response(401, "Missing authentication")
    ELSE AuthParts(StrSplit(SubSeq(auth.val, 4, Len(auth.val)), 58), users, now)

\* generate_user_keys() from line 38 on
generate_user_keys(kp, dp) ==
    IF kp.raised # "none" THEN Raise(kp.raised)
    ELSE IF dp.raised # "none" THEN Raise(dp.raised)
    ELSE Return(PyDict([enc_public_key |-> kp.public_key.val.seed,
                        enc_private_key |-> kp.private_key.val.seed,
                        sign_public_key |-> dp.verification_key.val.key_seed,
                        sign_private_key |-> dp.signing_key.val.key_seed]))

\* POST /api/users from line 101 on: keys is what generate_user_keys()
\* returned; an exception that leaves the view is answered with status 500
CreateUserNext(user_id, keys, o) ==
    IF keys.raised # "none"
    THEN [o EXCEPT !.response = Response(500, keys.raised)]
    ELSE [o EXCEPT !.users = (user_id.val :> keys.value) @@ @,
                   !.messages = (user_id.val :> <<>>) @@ @,
                   !.response = Response(200, "")]

\* POST /api/users with json {'user_id': user_id}
create_user(user_id, kp, dp, o) ==
    IF user_id.type = "NoneType" \/ user_id.val = <<>>
    THEN [o EXCEPT !.response = Response(400, "Missing user_id")]
    ELSE IF user_id.val \in DOMAIN o.users
    THEN [o EXCEPT !.response = Response(409, "User already exists")]
    ELSE CreateUserNext(user_id, generate_user_keys(kp, dp), o)

\* the Authorization header a client builds (tests/test_examples.py)
AuthHeader(user_id, stamp, sigtext) ==
    PyStr(<<81, 82, 32>> \o user_id.val \o <<58>> \o stamp.val \o <<58>> \o sigtext.val)

(***************************************************************************)
(* The applications as a state machine.  Init chooses the application.     *)
(*   "messaging": main() of secure_messaging.py, which starts by creating  *)
(*                the session object of its first user; an exception ends  *)
(*                it (step = "raised").                                    *)
(*   "web":       the Flask application with its dictionaries users and    *)
(*                messages, empty at import, and the server clock; each    *)
(*                request is one action and leaves its response in out.    *)
(***************************************************************************)
NoRequest ==
    [kind |-> "none", user_id |-> PyNone, auth |-> PyNone, clock |-> <<>>,
     form |-> "", sigtext |-> PyNone]

InitApps ==
    /\ ArithIdle
    /\ \/ /\ step = "start"
          /\ arg = [app |-> "messaging"]
          /\ out = <<>>
       \/ /\ step = "serving"
          /\ \E now \in Clocks : arg = [app |-> "web", now |-> now, request |-> NoRequest]
          /\ out = [users |-> <<>>, messages |-> <<>>, response |-> Response(0, ""),
                    count |-> 0, asked |-> {}]

\* alice = SecureMessagingSession("alice"), likewise for any other user id
NewSecureMessagingSession ==
    /\ step = "start"
    /\ arg.app = "messaging"
    /\ \E user_id \in UserIds, drawn \in DefaultKyberDraws, dp \in DilithiumKeyPairs :
          /\ out' = NewSession(user_id, drawn, dp)
          /\ arg' = [app |-> "messaging", user_id |-> user_id, drawn |-> drawn]
    /\ step' = IF out'.raised = "none" THEN "constructed" ELSE "raised"
    /\ UNCHANGED arithvars

\* POST /api/users
CreateUser ==
    /\ step = "serving"
    /\ out.count < MaxRequests
    /\ \E user_id \in UserIds \cup {PyNone, PyStr(<<>>)},
          drawn \in DefaultKyberDraws, dp \in DilithiumKeyPairs :
          /\ out' = [create_user(user_id, kyber_keygen(drawn), dp, out)
                        EXCEPT !.count = @ + 1,
                               !.asked = IF user_id.type = "str" /\ user_id.val # <<>>
                                         THEN @ \cup {user_id.val} ELSE @]
          /\ arg' = [arg EXCEPT !.request =
                        [NoRequest EXCEPT !.kind = "create_user", !.user_id = user_id]]
    /\ UNCHANGED <<step, arithvars>>

\* a request to an endpoint wrapped by require_auth (POST or GET
\* /api/messages) without an Authorization header or with one that does
\* not start with "QR "
ProtectedRequestWithoutAuth ==
    /\ step = "serving"
    /\ out.count < MaxRequests
    /\ \E auth \in {PyNone, PyStr(<<>>), PyStr(<<66, 97, 115, 105, 99>>)} :
          /\ out' = [out EXCEPT !.response = require_auth(auth, out.users, arg.now),
                                !.count = @ + 1]
          /\ arg' = [arg EXCEPT !.request =
                        [NoRequest EXCEPT !.kind = "protected", !.auth = auth]]
    /\ UNCHANGED <<step, arithvars>>

\* the same with the header "QR user_id:timestamp:signature" that a client
\* builds from its clock
ProtectedRequest ==
    /\ step = "serving"
    /\ out.count < MaxRequests
    /\ \E user_id \in UserIds, clock \in ClientClocks(arg.now), form \in TimestampForms,
          sigtext \in SignatureTexts :
          /\ arg' = [arg EXCEPT !.request =
                        [kind |-> "protected", user_id |-> user_id,
                         auth |-> AuthHeader(user_id, ClientTimestamp(clock, form), sigtext),
                         clock |-> clock, form |-> form, sigtext |-> sigtext]]
          /\ out' = [out EXCEPT !.response =
                                    require_auth(arg'.request.auth, out.users, arg.now),
                                !.count = @ + 1]
    /\ UNCHANGED <<step, arithvars>>

NextApps ==
    \/ NewSecureMessagingSession
    \/ CreateUser
    \/ ProtectedRequestWithoutAuth
    \/ ProtectedRequest

SpecApps == InitApps /\ [][NextApps]_vars

(***************************************************************************)
(* C23: the message exchange of secure_messaging.py (main() and            *)
(* tests/test_examples.py: both session objects are created, A calls       *)
(* initiate_session with B's public keys, B calls accept_session, then     *)
(* messages go through encrypt_message and the peer's decrypt_message in   *)
(* both directions) returns every plaintext as it was sent; no step of     *)
(* the exchange ends in an exception.                                      *)
(***************************************************************************)
C23_ExchangeReturnsPlaintext ==
    (arg.app = "messaging" /\ step # "start")
        => /\ out.raised = "none"
           /\ out.value.type = "SecureMessagingSession"

(***************************************************************************)
(* C24: a request to a protected endpoint of the web API, sent for a user  *)
(* who has registered through POST /api/users, with the header             *)
(* "QR user_id:timestamp:signature" whose timestamp is an ISO 8601 string  *)
(* of an instant within AuthWindow seconds of the server clock and whose   *)
(* signature is the hex of a signature, is authenticated and reaches the   *)
(* endpoint handler: it is not answered with status 401.                   *)
(***************************************************************************)
\* the request of the state is one of those the claim is about (the key
\* that would make a signature valid is never issued: see CreateUser)
ClaimedRequest ==
    /\ arg.app = "web"
    /\ arg.request.kind = "protected"
    /\ arg.request.form \in TimestampForms
    /\ arg.request.user_id.val \in out.asked
    /\ Abs(TotalSeconds(arg.now, ClientInstant(arg.request.clock, arg.request.form)))
          <= AuthWindow
    /\ BytesFromHex(arg.request.sigtext).raised = "none"
    /\ Len(BytesFromHex(arg.request.sigtext).value.val) = SignatureLen

C24_AuthenticatedReachesHandler ==
    ClaimedRequest => /\ out.response.handler
                      /\ out.response.status # 401

====
